---------------------------- MODULE Spec2Model ----------------------------
(***************************************************************************)
(* A model of two parts of the hbbft crate:                                *)
(*                                                                         *)
(*  - src/messaging.rs: the local message delivery system.  `Messaging`    *)
(*    owns N-1 channels to the comms (link-handler) tasks, N channels to   *)
(*    the algo (protocol-instance) tasks and one inbound channel from each *)
(*    side; the thread started by `spawn` forwards messages between them.  *)
(*                                                                         *)
(*  - src/proto/mod.rs: the translation between the in-memory messages     *)
(*    (Message, BroadcastMessage, Proof, Lemma) and their protobuf forms   *)
(*    (MessageProto, BroadcastProto, ProofProto, LemmaProto).              *)
(*                                                                         *)
(* Spec is the router while the Messaging value is alive (it keeps a       *)
(* receive handle of every channel, so no send of the loop can fail);      *)
(* SpecCodec is the codec applied to bounded sets of inputs.               *)
(*                                                                         *)
(* Rust vectors are 0-based and TLA+ sequences 1-based: vector index v is  *)
(* position v + 1 of the sequence that models the vector.                  *)
(***************************************************************************)
EXTENDS Integers, Sequences, FiniteSets, TLC

\* ------------------------------------------------------------------------
\* Bounds of the model
\* ------------------------------------------------------------------------

\* The router is built for 1..MaxNodes nodes.
MaxNodes == 3

\* Node indices used as targets and sources range over 0..MaxIndex.
MaxIndex == 3

\* Messages submitted to the router in one behaviour (both directions).
MaxMsgs == 3

\* The byte strings (hashes, shard values) of messages are 1..MaxByte.
MaxByte == 1

\* Lemmas nest at most MaxDepth sub-lemmas deep.
MaxDepth == 1

\* Channels closed in one behaviour of the teardown.
MaxClosed == 1

\* Echo and Ready messages of the Byzantine replica that sessions count in one
\* round.
MaxByzantine == 1

\* ------------------------------------------------------------------------
\* Option<T>: None is the empty sequence, Some(x) the one-element sequence
\* ------------------------------------------------------------------------

None == << >>

Some(x) == << x >>

IsSome(o) == o # None

Unwrap(o) == o[1]

\* ------------------------------------------------------------------------
\* src/messaging.rs: Target, TargetedMessage, SourcedMessage
\* ------------------------------------------------------------------------

\* enum Target { All, Node(usize) }
All == [tag |-> "All", i |-> 0]

Node(i) == [tag |-> "Node", i |-> i]

Targets == {All} \cup {Node(i) : i \in 0 .. MaxIndex}

\* The router is generic in the message; a message is modelled by the number of
\* its submission, so that every submitted message is a distinct value and a
\* lost, doubled, altered or reordered copy is visible.
Messages == 1 .. MaxMsgs

\* struct TargetedMessage { pub target, pub message }: both fields are public,
\* so every pair is a value of the type.
TargetedMessages == [target : Targets, message : Messages]

\* struct SourcedMessage { pub source, pub message }
SourcedMessages == [source : 0 .. MaxIndex, message : Messages]

\* TargetedMessage::new: None for Node(0), the struct otherwise.
TargetedMessage_new(target, message) ==
    IF target.tag = "Node" /\ target.i = 0
    THEN None
    ELSE Some([target |-> target, message |-> message])

VARIABLES
    num_nodes,      \* Messaging.num_nodes
    to_comms,       \* to_comms_txs/rxs: per comms task, the messages sent to it
    to_algo,        \* to_algo_txs/rxs: per algo task, the messages sent to it
    from_algo,      \* from_algo_tx/rx: TargetedMessages not yet received
    from_comms,     \* from_comms_tx/rx: SourcedMessages not yet received
    closed,         \* the channels all of whose receivers are gone
    router,         \* the forwarding thread: "running" or how it ended
    log,            \* the indices written by error!("Target {} does not exist")
    nsub,           \* messages submitted so far
    done_algo,      \* history: the TargetedMessages the loop has received
    done_comms,     \* history: the SourcedMessages the loop has received
    mem,            \* codec: the in-memory Message given to into_proto
    wire,           \* codec: the MessageProto at hand
    result,         \* codec: what from_proto returned
    cpc,            \* codec: "idle", "encoded", "received", "decoded", "panicked"
    byz,            \* broadcast: the Byzantine replica, 0 if every replica is correct
    proposed,       \* broadcast: the root hash of the value a correct proposer sent
    inplay,         \* broadcast: the root hashes the messages of the round carry
    sessions,       \* broadcast: per replica, its ReliableBroadcast session state
    noted           \* history: the kinds of discard that have happened

router_vars == << num_nodes, to_comms, to_algo, from_algo, from_comms, closed,
                  router, log, nsub, done_algo, done_comms >>

codec_vars == << mem, wire, result, cpc >>

rbc_vars == << byz, proposed, inplay, sessions, noted >>

vars == << num_nodes, to_comms, to_algo, from_algo, from_comms, closed,
           router, log, nsub, done_algo, done_comms, mem, wire, result, cpc,
           byz, proposed, inplay, sessions, noted >>

\* A channel of `closed` is named by its side and its position; CommsChan and
\* AlgoChan take the vector index.
CommsChan(v) == << "comms", v + 1 >>

AlgoChan(v) == << "algo", v + 1 >>

\* Messaging::new(n): n - 1 channels to comms tasks, n channels to algo tasks
\* and the two inbound channels, all empty and open.
Messaging_new(n) ==
    /\ num_nodes = n
    /\ to_comms = [v \in 1 .. n - 1 |-> << >>]
    /\ to_algo = [v \in 1 .. n |-> << >>]
    /\ from_algo = << >>
    /\ from_comms = << >>
    /\ closed = {}

\* ------------------------------------------------------------------------
\* The senders: algo tasks on from_algo_tx, comms tasks on from_comms_tx
\* ------------------------------------------------------------------------

\* An algo task builds its message with TargetedMessage::new and sends what it
\* got; nothing is sent when new returned None.
AlgoSendNew(target) ==
    /\ nsub < MaxMsgs
    /\ LET tm == TargetedMessage_new(target, nsub + 1) IN
        /\ IsSome(tm)
        /\ from_algo' = Append(from_algo, Unwrap(tm))
    /\ nsub' = nsub + 1
    /\ UNCHANGED << num_nodes, to_comms, to_algo, from_comms, closed, router,
                    log, done_algo, done_comms >>
    /\ UNCHANGED codec_vars
    /\ UNCHANGED rbc_vars

\* An algo task builds its message as a struct literal (the fields are public):
\* from_algo_tx accepts every TargetedMessage.
AlgoSendLiteral(target) ==
    /\ nsub < MaxMsgs
    /\ from_algo' = Append(from_algo, [target |-> target, message |-> nsub + 1])
    /\ nsub' = nsub + 1
    /\ UNCHANGED << num_nodes, to_comms, to_algo, from_comms, closed, router,
                    log, done_algo, done_comms >>
    /\ UNCHANGED codec_vars
    /\ UNCHANGED rbc_vars

\* A comms task tags a message from its peer with the peer's index and sends it.
CommsSend(source) ==
    /\ nsub < MaxMsgs
    /\ from_comms' = Append(from_comms, [source |-> source, message |-> nsub + 1])
    /\ nsub' = nsub + 1
    /\ UNCHANGED << num_nodes, to_comms, to_algo, from_algo, closed, router,
                    log, done_algo, done_comms >>
    /\ UNCHANGED codec_vars
    /\ UNCHANGED rbc_vars

\* ------------------------------------------------------------------------
\* Messaging::spawn: the forwarding loop
\* ------------------------------------------------------------------------

\* Mutation of FirstClosed: the result of send is dropped, no send panics.
FirstClosed_Never(chans, side) == Len(chans) + 1

\* `for tx in txs.iter() { tx.send(x).unwrap(); }` over the channels chans (a
\* sequence of queues) of one side: the sends happen in vector order and the
\* first send to a closed channel panics. FirstClosed is the position of that
\* send, or Len(chans) + 1 when every send succeeds.
FirstClosed(chans, side) ==
    LET bad == {p \in 1 .. Len(chans) : << side, p >> \in closed} IN
    IF bad = {} THEN Len(chans) + 1
    ELSE CHOOSE v \in bad : \A w \in bad : v <= w

\* Mutation of SendToAll: the first channel is skipped.
SendToAll_Skip(chans, side, x) ==
    [v \in 1 .. Len(chans) |->
        IF v < FirstClosed(chans, side) /\ v > 1
        THEN Append(chans[v], x) ELSE chans[v]]

\* The channels after the loop (or after its panic).
SendToAll(chans, side, x) ==
    [v \in 1 .. Len(chans) |->
        IF v < FirstClosed(chans, side) THEN Append(chans[v], x) ELSE chans[v]]

\* Mutation of SendToOne: the message is sent twice.
SendToOne_Twice(chans, v, x) == [chans EXCEPT ![v] = Append(Append(@, x), x)]

\* Mutation of SendToOne: the message overtakes the ones already queued.
SendToOne_Front(chans, v, x) == [chans EXCEPT ![v] = << x >> \o @]

\* `txs[v].send(x).unwrap()` at position v (vector index v - 1).
SendToOne(chans, v, x) == [chans EXCEPT ![v] = Append(@, x)]

\* TargetedMessage { target: Target::All, message } => every comms channel.
RouteAll(message) ==
    /\ to_comms' = SendToAll(to_comms, "comms", message)
    /\ router' = IF FirstClosed(to_comms, "comms") <= Len(to_comms)
                 THEN "send_failed" ELSE "running"
    /\ log' = log

\* Mutation of RouteNode: the node index is used as the vector index.
RouteNode_NoConversion(n, message) ==
    IF ~ (n > 0)
    THEN /\ router' = "assert_failed"
         /\ UNCHANGED << to_comms, log >>
    ELSE LET i == n IN
         IF i < Len(to_comms)
         THEN /\ to_comms' = SendToOne(to_comms, i + 1, message)
              /\ UNCHANGED << router, log >>
         ELSE /\ log' = Append(log, i)
              /\ UNCHANGED << to_comms, router >>

\* Mutation of RouteNode: a target that does not exist ends the thread.
RouteNode_Fatal(n, message) ==
    IF ~ (n > 0)
    THEN /\ router' = "assert_failed"
         /\ UNCHANGED << to_comms, log >>
    ELSE LET i == n - 1 IN
         IF i < Len(to_comms)
         THEN /\ to_comms' = SendToOne(to_comms, i + 1, message)
              /\ UNCHANGED << router, log >>
         ELSE /\ router' = "send_failed"
              /\ UNCHANGED << to_comms, log >>

\* TargetedMessage { target: Target::Node(i), message } => the comms channel of
\* vector index i - 1 if there is one, an error line otherwise. n is the i of
\* the target; i below is the i the code rebinds to n - 1.
RouteNode(n, message) ==
    IF ~ (n > 0)
    THEN \* assert!(i > 0) fails: the thread panics
         /\ router' = "assert_failed"
         /\ UNCHANGED << to_comms, log >>
    ELSE LET i == n - 1 IN
         IF i < Len(to_comms)
         THEN IF CommsChan(i) \in closed
              THEN /\ router' = "send_failed"
                   /\ UNCHANGED << to_comms, log >>
              ELSE /\ to_comms' = SendToOne(to_comms, i + 1, message)
                   /\ UNCHANGED << router, log >>
         ELSE /\ log' = Append(log, i)
              /\ UNCHANGED << to_comms, router >>

\* Mutation of RecvFromAlgo: an All message is also handed to the local algo
\* tasks, as a message of source 0.
RecvFromAlgo_Loopback ==
    /\ router = "running"
    /\ from_algo # << >>
    /\ LET tm == Head(from_algo) IN
        /\ from_algo' = Tail(from_algo)
        /\ done_algo' = Append(done_algo, [tm |-> tm, at |-> nsub])
        /\ IF tm.target.tag = "All"
           THEN /\ RouteAll(tm.message)
                /\ to_algo' = SendToAll(to_algo, "algo",
                                  [source |-> 0, message |-> tm.message])
           ELSE /\ RouteNode(tm.target.i, tm.message)
                /\ to_algo' = to_algo
    /\ UNCHANGED << num_nodes, from_comms, closed, nsub, done_comms >>
    /\ UNCHANGED codec_vars
    /\ UNCHANGED rbc_vars

\* recv(from_algo_rx, message) => match message { ... }
RecvFromAlgo ==
    /\ router = "running"
    /\ from_algo # << >>
    /\ LET tm == Head(from_algo) IN
        /\ from_algo' = Tail(from_algo)
        /\ done_algo' = Append(done_algo, [tm |-> tm, at |-> nsub])
        /\ IF tm.target.tag = "All"
           THEN RouteAll(tm.message)
           ELSE RouteNode(tm.target.i, tm.message)
    /\ UNCHANGED << num_nodes, to_algo, from_comms, closed, nsub, done_comms >>
    /\ UNCHANGED codec_vars
    /\ UNCHANGED rbc_vars

\* Mutation of RecvFromComms: only the algo task of the source gets the message.
RecvFromComms_BySource ==
    /\ router = "running"
    /\ from_comms # << >>
    /\ LET sm == Head(from_comms) IN
        /\ from_comms' = Tail(from_comms)
        /\ done_comms' = Append(done_comms, sm)
        /\ to_algo' = [v \in 1 .. Len(to_algo) |->
                          IF v = sm.source THEN Append(to_algo[v], sm)
                          ELSE to_algo[v]]
        /\ router' = router
    /\ UNCHANGED << num_nodes, to_comms, from_algo, closed, log, nsub,
                    done_algo >>
    /\ UNCHANGED codec_vars
    /\ UNCHANGED rbc_vars

\* recv(from_comms_rx, message) => for tx in to_algo_txs.iter() { ... }
RecvFromComms ==
    /\ router = "running"
    /\ from_comms # << >>
    /\ LET sm == Head(from_comms) IN
        /\ from_comms' = Tail(from_comms)
        /\ done_comms' = Append(done_comms, sm)
        /\ to_algo' = SendToAll(to_algo, "algo", sm)
        /\ router' = IF FirstClosed(to_algo, "algo") <= Len(to_algo)
                     THEN "send_failed" ELSE "running"
    /\ UNCHANGED << num_nodes, to_comms, from_algo, closed, log, nsub,
                    done_algo >>
    /\ UNCHANGED codec_vars
    /\ UNCHANGED rbc_vars

\* ------------------------------------------------------------------------
\* The router's specification
\* ------------------------------------------------------------------------

\* The ReliableBroadcast sessions of one round of one proposer (spec 4.4),
\* for N = 4 replicas of which f = 1 may be faulty. Replica 1 proposes.
NumReplicas == 4

NumFaulty == 1

Replicas == 1 .. NumReplicas

Proposer == 1

\* Root hashes. A root of GoodRoots is the root of the Merkle tree over a
\* proper erasure coding of a value, and stands for that value; BadRoot is
\* the root of a tree over shards that are no coding of any value. NoRoot
\* says that there is no root hash yet.
NoRoot == 0

GoodRoots == {1, 2}

BadRoot == 3

Roots == GoodRoots \cup {BadRoot}

\* The session state at the start of the round: per candidate root hash, the
\* senders counted for Echo and for Ready and the two counts; the root of the
\* Value that was echoed; the root Ready was sent for, on which evidence, and
\* whether it was sent before the Echo; the value delivered.
Session_new ==
    [st |-> "Init",
     value_root |-> NoRoot,
     echoes |-> [h \in Roots |-> {}],
     echo_count |-> [h \in Roots |-> 0],
     readys |-> [h \in Roots |-> {}],
     ready_count |-> [h \in Roots |-> 0],
     ready_sent |-> NoRoot,
     ready_by |-> "",
     ready_first |-> FALSE,
     delivered |-> None,
     delivered_root |-> NoRoot]

\* The pairs of roots one round may see: the roots of two values, or the root
\* of a value and the bad one (the roots 1 and 2 are alike).
RootPairs == {GoodRoots, {1, BadRoot}}

BroadcastIdle ==
    /\ byz = 0
    /\ proposed = NoRoot
    /\ inplay = Roots
    /\ sessions = [r \in Replicas |-> Session_new]
    /\ noted = {}

CodecIdle ==
    /\ mem = None
    /\ wire = None
    /\ result = [outcome |-> "none", value |-> None]
    /\ cpc = "idle"

Init ==
    /\ \E n \in 1 .. MaxNodes : Messaging_new(n)
    /\ router = "running"
    /\ log = << >>
    /\ nsub = 0
    /\ done_algo = << >>
    /\ done_comms = << >>
    /\ CodecIdle
    /\ BroadcastIdle

Next ==
    \/ \E t \in Targets : AlgoSendNew(t)
    \/ \E t \in Targets : AlgoSendLiteral(t)
    \/ \E s \in 0 .. MaxIndex : CommsSend(s)
    \/ RecvFromAlgo
    \/ RecvFromComms

Spec == Init /\ [][Next]_vars

\* The loop with a fair select_loop!: a receive branch that stays ready is
\* taken.
SpecFair ==
    /\ Init
    /\ [][Next]_vars
    /\ WF_vars(RecvFromAlgo)
    /\ WF_vars(RecvFromComms)

\* ------------------------------------------------------------------------
\* The router at teardown: the Messaging value is gone and the tasks drop
\* their receive handles, which closes the channels one by one.
\* ------------------------------------------------------------------------

\* The channels the loop sends on.
Channels ==
    {<< "comms", p >> : p \in 1 .. Len(to_comms)}
        \cup {<< "algo", p >> : p \in 1 .. Len(to_algo)}

\* The last receive handle of the channel ch is dropped: a send on ch now
\* returns Err, which the loop unwraps.
CloseChannel(ch) ==
    /\ ch \notin closed
    /\ Cardinality(closed) < MaxClosed
    /\ closed' = closed \cup {ch}
    /\ UNCHANGED << num_nodes, to_comms, to_algo, from_algo, from_comms,
                    router, log, nsub, done_algo, done_comms >>
    /\ UNCHANGED codec_vars
    /\ UNCHANGED rbc_vars

\* At teardown the senders are taken to be well-behaved: targets are built
\* by TargetedMessage::new and are All, an existing Node(i) or the first
\* Node(i) that does not exist, and the source is node 1.
NextTeardown ==
    \/ \E t \in {All} \cup {Node(i) : i \in 1 .. num_nodes} : AlgoSendNew(t)
    \/ CommsSend(1)
    \/ RecvFromAlgo
    \/ RecvFromComms
    \/ \E ch \in Channels : CloseChannel(ch)

SpecTeardown == Init /\ [][NextTeardown]_vars

\* ------------------------------------------------------------------------
\* src/proto/mod.rs: the in-memory messages
\* ------------------------------------------------------------------------

\* Vec<u8>: hashes and shard values. The empty string is what take_x gives for
\* a bytes field that is not set; the strings of messages are not empty.
EmptyBytes == 0

Bytes == 1 .. MaxByte

\* merkle::proof::Positioned: Left(hash) or Right(hash).
Left(h) == [pos |-> "Left", hash |-> h]

Right(h) == [pos |-> "Right", hash |-> h]

Positioneds == {Left(h) : h \in Bytes} \cup {Right(h) : h \in Bytes}

\* Option<T> over the set S of values of T.
Option(S) == {None} \cup {Some(x) : x \in S}

\* merkle::proof::Lemma { node_hash, sibling_hash, sub_lemma }, at most d
\* sub-lemmas deep.
RECURSIVE Lemmas(_)
Lemmas(d) ==
    [node_hash : Bytes,
     sibling_hash : Option(Positioneds),
     sub_lemma : IF d = 0 THEN {None} ELSE Option(Lemmas(d - 1))]

\* merkle::proof::Proof { algorithm, root_hash, lemma, value }; the algorithm
\* is the one static the codec is called with and is left out. The value type
\* T is taken to be Vec<u8>, whose conversions to and from Vec<u8> keep the
\* bytes.
Proofs == [root_hash : Bytes, lemma : Lemmas(MaxDepth), value : Bytes]

Proof_new(root_hash, lemma, value) ==
    [root_hash |-> root_hash, lemma |-> lemma, value |-> value]

\* enum BroadcastMessage { Value(Proof), Echo(Proof), Ready(Vec<u8>) }
Value(p) == [tag |-> "Value", proof |-> p]

Echo(p) == [tag |-> "Echo", proof |-> p]

Ready(h) == [tag |-> "Ready", root_hash |-> h]

BroadcastMessages ==
    {Value(p) : p \in Proofs} \cup {Echo(p) : p \in Proofs}
        \cup {Ready(h) : h \in Bytes}

\* enum Message { Broadcast(BroadcastMessage), Agreement(AgreementMessage) };
\* AgreementMessage has no variant, so no Message::Agreement value exists.
Broadcast(b) == [tag |-> "Broadcast", broadcast |-> b]

CodecMessages == {Broadcast(b) : b \in BroadcastMessages}

\* ------------------------------------------------------------------------
\* src/proto/mod.rs: the protobuf messages, as the accessors used by the codec
\* show them (has_x, take_x, set_x). An optional field is an Option; take_x of
\* an unset field gives the field's default.
\* ------------------------------------------------------------------------

\* LemmaProto: node_hash, left_sibling_hash, right_sibling_hash, sub_lemma.
\* The two sibling hashes are tested one by one by from_proto and are kept
\* apart here, so that a LemmaProto with both is a value of the model.
RECURSIVE LemmaProtos(_)
LemmaProtos(d) ==
    [node_hash : Bytes,
     left_sibling_hash : Option(Bytes),
     right_sibling_hash : Option(Bytes),
     sub_lemma : IF d = 0 THEN {None} ELSE Option(LemmaProtos(d - 1))]

LemmaProto_default ==
    [node_hash |-> EmptyBytes, left_sibling_hash |-> None,
     right_sibling_hash |-> None,
     sub_lemma |-> None]

\* ProofProto: root_hash, lemma, value.
ProofProtos ==
    [root_hash : Bytes, lemma : Option(LemmaProtos(MaxDepth)), value : Bytes]

ProofProto_default ==
    [root_hash |-> EmptyBytes, lemma |-> None, value |-> EmptyBytes]

\* ValueProto and EchoProto: proof. ReadyProto: root_hash.
ValueProtos == [proof : Option(ProofProtos)]

ReadyProtos == [root_hash : Bytes]

\* BroadcastProto: at most one of value, echo and ready is set.
BroadcastProto_new == [value |-> None, echo |-> None, ready |-> None]

BroadcastProtos ==
    {BroadcastProto_new}
        \cup {[BroadcastProto_new EXCEPT !.value = Some(v)] : v \in ValueProtos}
        \cup {[BroadcastProto_new EXCEPT !.echo = Some(e)] : e \in ValueProtos}
        \cup {[BroadcastProto_new EXCEPT !.ready = Some(r)] : r \in ReadyProtos}

\* AgreementProto has no field the codec reads.
AgreementProto_new == [agreement |-> "AgreementProto"]

\* MessageProto: at most one of broadcast and agreement is set.
MessageProto_new == [broadcast |-> None, agreement |-> None]

MessageProtos ==
    {MessageProto_new}
        \cup {[MessageProto_new EXCEPT !.broadcast = Some(b)] :
                 b \in BroadcastProtos}
        \cup {[MessageProto_new EXCEPT !.agreement = Some(AgreementProto_new)]}

\* take_x(): the field if set, its default otherwise.
Take(field, default) == IF IsSome(field) THEN Unwrap(field) ELSE default

\* ------------------------------------------------------------------------
\* src/proto/mod.rs: into_proto and from_proto
\* ------------------------------------------------------------------------

\* LemmaProto::into_proto
RECURSIVE LemmaProto_into_proto(_)
LemmaProto_into_proto(lemma) ==
    [node_hash |-> lemma.node_hash,
     sub_lemma |->
        IF IsSome(lemma.sub_lemma)
        THEN Some(LemmaProto_into_proto(Unwrap(lemma.sub_lemma)))
        ELSE None,
     left_sibling_hash |->
        IF IsSome(lemma.sibling_hash)
            /\ Unwrap(lemma.sibling_hash).pos = "Left"
        THEN Some(Unwrap(lemma.sibling_hash).hash) ELSE None,
     right_sibling_hash |->
        IF IsSome(lemma.sibling_hash)
            /\ Unwrap(lemma.sibling_hash).pos = "Right"
        THEN Some(Unwrap(lemma.sibling_hash).hash) ELSE None]

\* Mutation of LemmaProto_from_proto: a lemma with a sub_lemma and both sibling
\* hashes, or neither, gives None.
RECURSIVE LemmaProto_from_proto_Strict(_)
LemmaProto_from_proto_Strict(proto) ==
    LET node_hash == proto.node_hash
        sibling_hash ==
            IF IsSome(proto.left_sibling_hash)
            THEN Some(Left(Unwrap(proto.left_sibling_hash)))
            ELSE IF IsSome(proto.right_sibling_hash)
            THEN Some(Right(Unwrap(proto.right_sibling_hash)))
            ELSE None
    IN  IF IsSome(proto.sub_lemma)
        THEN IF IsSome(proto.left_sibling_hash)
                    = IsSome(proto.right_sibling_hash)
             THEN None
             ELSE LET sub == LemmaProto_from_proto_Strict(Unwrap(proto.sub_lemma))
                  IN  IF IsSome(sub)
                      THEN Some([node_hash |-> node_hash,
                                 sibling_hash |-> sibling_hash,
                                 sub_lemma |-> Some(Unwrap(sub))])
                      ELSE None
        ELSE Some([node_hash |-> node_hash,
                   sibling_hash |-> sibling_hash,
                   sub_lemma |-> None])

\* LemmaProto::from_proto: Option<Lemma>. Left is taken when both sibling
\* hashes are set; None comes only from a sub_lemma that gave None.
RECURSIVE LemmaProto_from_proto(_)
LemmaProto_from_proto(proto) ==
    LET node_hash == proto.node_hash
        sibling_hash ==
            IF IsSome(proto.left_sibling_hash)
            THEN Some(Left(Unwrap(proto.left_sibling_hash)))
            ELSE IF IsSome(proto.right_sibling_hash)
            THEN Some(Right(Unwrap(proto.right_sibling_hash)))
            ELSE None
    IN  IF IsSome(proto.sub_lemma)
        THEN LET sub == LemmaProto_from_proto(Unwrap(proto.sub_lemma))
             IN  IF IsSome(sub)
                 THEN Some([node_hash |-> node_hash,
                            sibling_hash |-> sibling_hash,
                            sub_lemma |-> Some(Unwrap(sub))])
                 ELSE None
        ELSE Some([node_hash |-> node_hash,
                   sibling_hash |-> sibling_hash,
                   sub_lemma |-> None])

\* ProofProto::into_proto
ProofProto_into_proto(proof) ==
    [root_hash |-> proof.root_hash,
     lemma |-> Some(LemmaProto_into_proto(proof.lemma)),
     value |-> proof.value]

\* Mutation of ProofProto_from_proto: has_lemma is not tested.
ProofProto_from_proto_NoLemmaCheck(proto) ==
    LET lemma == LemmaProto_from_proto(Take(proto.lemma, LemmaProto_default))
    IN  IF IsSome(lemma)
        THEN Some(Proof_new(proto.root_hash, Unwrap(lemma), proto.value))
        ELSE None

\* ProofProto::from_proto: Option<Proof>
ProofProto_from_proto(proto) ==
    IF ~ IsSome(proto.lemma)
    THEN None
    ELSE LET lemma == LemmaProto_from_proto(Unwrap(proto.lemma))
         IN  IF IsSome(lemma)
             THEN Some(Proof_new(proto.root_hash, Unwrap(lemma), proto.value))
             ELSE None

\* BroadcastMessage::into_proto. The Ready arm builds a ReadyProto and drops
\* it: b.set_ready is not called, and b is returned with nothing set.
BroadcastMessage_into_proto(b) ==
    IF b.tag = "Value"
    THEN [BroadcastProto_new EXCEPT
            !.value = Some([proof |-> Some(ProofProto_into_proto(b.proof))])]
    ELSE IF b.tag = "Echo"
    THEN [BroadcastProto_new EXCEPT
            !.echo = Some([proof |-> Some(ProofProto_into_proto(b.proof))])]
    ELSE BroadcastProto_new

\* BroadcastMessage::from_proto: Option<BroadcastMessage>
BroadcastMessage_from_proto(mp) ==
    IF IsSome(mp.value)
    THEN LET p == ProofProto_from_proto(
                      Take(Unwrap(mp.value).proof, ProofProto_default))
         IN  IF IsSome(p) THEN Some(Value(Unwrap(p))) ELSE None
    ELSE IF IsSome(mp.echo)
    THEN LET p == ProofProto_from_proto(
                      Take(Unwrap(mp.echo).proof, ProofProto_default))
         IN  IF IsSome(p) THEN Some(Echo(Unwrap(p))) ELSE None
    ELSE IF IsSome(mp.ready)
    THEN Some(Ready(Unwrap(mp.ready).root_hash))
    ELSE None

\* What a call did: it returned `value`, or it panicked.
Returned(value) == [outcome |-> "returned", value |-> value]

Panicked == [outcome |-> "panicked", value |-> None]

\* AgreementMessage::from_proto: unimplemented!()
AgreementMessage_from_proto(mp) == Panicked

\* Message::into_proto (Message::Agreement has no value, see CodecMessages)
Message_into_proto(m) ==
    [MessageProto_new EXCEPT
        !.broadcast = Some(BroadcastMessage_into_proto(m.broadcast))]

\* Message::from_proto: Option<Message>, or a panic
Message_from_proto(proto) ==
    IF IsSome(proto.broadcast)
    THEN LET b == BroadcastMessage_from_proto(Unwrap(proto.broadcast))
         IN  Returned(IF IsSome(b) THEN Some(Broadcast(Unwrap(b))) ELSE None)
    ELSE IF IsSome(proto.agreement)
    THEN AgreementMessage_from_proto(Unwrap(proto.agreement))
    ELSE Returned(None)

\* ------------------------------------------------------------------------
\* The codec's specification: a message is encoded, or a MessageProto comes
\* from a peer; then it is decoded.
\* ------------------------------------------------------------------------

\* A node encodes a message for the wire.
Encode ==
    /\ cpc = "idle"
    /\ \E m \in CodecMessages :
        /\ mem' = Some(m)
        /\ wire' = Some(Message_into_proto(m))
    /\ result' = result
    /\ cpc' = "encoded"
    /\ UNCHANGED router_vars
    /\ UNCHANGED rbc_vars

\* A MessageProto arrives from a peer, who may have built it in any way.
Receive ==
    /\ cpc = "idle"
    /\ mem' = None
    /\ \E proto \in MessageProtos : wire' = Some(proto)
    /\ result' = result
    /\ cpc' = "received"
    /\ UNCHANGED router_vars
    /\ UNCHANGED rbc_vars

\* The MessageProto at hand is given to Message::from_proto.
Decode ==
    /\ cpc \in {"encoded", "received"}
    /\ result' = Message_from_proto(Unwrap(wire))
    /\ cpc' = IF result'.outcome = "panicked" THEN "panicked" ELSE "decoded"
    /\ UNCHANGED << mem, wire >>
    /\ UNCHANGED router_vars
    /\ UNCHANGED rbc_vars

InitCodec ==
    /\ Messaging_new(1)
    /\ router = "running"
    /\ log = << >>
    /\ nsub = 0
    /\ done_algo = << >>
    /\ done_comms = << >>
    /\ CodecIdle
    /\ BroadcastIdle

NextCodec ==
    \/ Encode
    \/ Receive
    \/ Decode

SpecCodec == InitCodec /\ [][NextCodec]_vars

\* ------------------------------------------------------------------------
\* ReliableBroadcast: the Value / Echo / Ready state machine (spec 4.4)
\*
\* A message a correct replica has sent stays available to each of its
\* receivers: it may arrive late, in any order and more than once. The
\* Byzantine replica may send any message to any replica at any time. A
\* replica handles its own Value, Echo and Ready like one it received (the
\* router does not hand a replica's broadcast back to it). Proofs that do not
\* verify are discarded on arrival and are left out.
\* ------------------------------------------------------------------------

Correct == Replicas \ {byz}

\* ErasureCoder.decode of the shards stored under the root h by the replica r,
\* given at least f + 1 of them: the value of a good root; shards that are no
\* coding of a value decode to a value that depends on the shards at hand.
ErasureDecode(h, r) == IF h \in GoodRoots THEN h ELSE 0 - r

\* MerkleAuthenticator.build over the coding of the value v: its root hash.
RootOf(v) == IF v \in GoodRoots THEN v ELSE NoRoot

\* Mutation of Confirmed: a successful decode is trusted.
Confirmed_DecodeOnly(h, r) == TRUE

\* Step 3: re-derive the root hash from the decoded value and confirm that it
\* matches.
Confirmed(h, r) == RootOf(ErasureDecode(h, r)) = h

\* The senders counted for Echo, and for Ready, under whatever root.
EchoSenders(s) == UNION {s.echoes[h] : h \in Roots}

ReadySenders(s) == UNION {s.readys[h] : h \in Roots}

\* The value for h is reconstructible from the shards stored under h.
Reconstructible(s, h) == Cardinality(s.echoes[h]) >= NumFaulty + 1

\* Step 4, delivery: N - f distinct Ready senders for h and the value for h
\* reconstructible.
TryDeliver(s, r, h) ==
    IF /\ s.st # "Delivered"
       /\ s.ready_count[h] >= NumReplicas - NumFaulty
       /\ Reconstructible(s, h)
    THEN [s EXCEPT !.st = "Delivered",
                   !.delivered = Some(ErasureDecode(h, r)),
                   !.delivered_root = h]
    ELSE s

\* Step 4, counting: a Ready of a sender already counted is discarded.
CountReady(s, j, h) ==
    IF j \in ReadySenders(s) THEN s
    ELSE [s EXCEPT !.readys[h] = @ \cup {j}, !.ready_count[h] = @ + 1]

\* Mutation of CountEcho: an Echo is counted whoever sent it, and however
\* often.
CountEcho_Again(s, j, h) ==
    [s EXCEPT !.echoes[h] = @ \cup {j}, !.echo_count[h] = @ + 1]

\* Step 3, counting: an Echo of a sender already counted is discarded.
CountEcho(s, j, h) ==
    IF j \in EchoSenders(s) THEN s
    ELSE [s EXCEPT !.echoes[h] = @ \cup {j}, !.echo_count[h] = @ + 1]

\* The replica r broadcasts Ready(h), which it also counts itself, and moves
\* to ReadySent; `by` records the evidence ("echo" or "ready").
SendReady(s, r, h, by) ==
    CountReady([s EXCEPT !.ready_sent = h, !.ready_by = by,
                         !.ready_first = (s.value_root = NoRoot),
                         !.st = "ReadySent"], r, h)

\* Step 4, thresholds: on f + 1 distinct Ready senders for h send Ready if not
\* yet sent; on N - f deliver.
AfterReady(s, r, h) ==
    TryDeliver(IF s.ready_count[h] >= NumFaulty + 1 /\ s.ready_sent = NoRoot
               THEN SendReady(s, r, h, "ready") ELSE s, r, h)

\* Mutation of AfterEcho: Ready waits for an Echo of every replica.
AfterEcho_Unanimous(s, r, h) ==
    AfterReady(IF /\ s.echo_count[h] >= NumReplicas
                  /\ Confirmed(h, r)
                  /\ s.ready_sent = NoRoot
               THEN SendReady(s, r, h, "echo") ELSE s, r, h)

\* Step 3, threshold: on N - f distinct Echoes for h, decode and confirm the
\* root, then broadcast Ready(h) if not yet sent. The shards may also complete
\* a delivery that waited for them.
AfterEcho(s, r, h) ==
    AfterReady(IF /\ s.echo_count[h] >= NumReplicas - NumFaulty
                  /\ Confirmed(h, r)
                  /\ s.ready_sent = NoRoot
               THEN SendReady(s, r, h, "echo") ELSE s, r, h)

\* Mutation of OnReady: a delivered session goes on counting.
OnReady_Late(s, r, j, h) == AfterReady(CountReady(s, j, h), r, h)

\* Step 4: Ready(h) from the replica j at the replica r.
OnReady(s, r, j, h) ==
    IF s.st = "Delivered" THEN s
    ELSE AfterReady(CountReady(s, j, h), r, h)

\* Step 3: a valid Echo for the root h from the replica j at the replica r.
OnEcho(s, r, j, h) ==
    IF s.st = "Delivered" THEN s
    ELSE AfterEcho(CountEcho(s, j, h), r, h)

\* Step 2: the first valid Value of the round, with root h, at the replica r:
\* store the shard, broadcast Echo (and count it), move to Echoing.
OnValue(s, r, h) ==
    IF s.st = "Delivered" \/ s.value_root # NoRoot THEN s
    ELSE OnEcho([s EXCEPT !.value_root = h,
                          !.st = IF @ \in {"Init", "Disseminated"}
                                 THEN "Echoing" ELSE @], r, r, h)

\* What a step notes about the message it handled: a discard because the
\* session had delivered, or because the sender was already counted.
Ignored(s) == IF s.st = "Delivered" THEN {"after_delivered"} ELSE {}

Duplicate(s, senders, j) ==
    IF s.st # "Delivered" /\ j \in senders THEN {"duplicate"} ELSE {}

\* The channel from the correct replica j to the replica r is FIFO and gives
\* each message once: j's Echo follows the Value if j is the proposer, and j's
\* Echo and Ready arrive in the order j sent them. A session that has
\* delivered takes no notice of what arrives.
EchoInOrder(r, j) ==
    \/ sessions[r].st = "Delivered"
    \/ /\ j \notin EchoSenders(sessions[r])
       /\ j = Proposer => sessions[r].value_root # NoRoot
       /\ sessions[j].ready_first => j \in ReadySenders(sessions[r])

ReadyInOrder(r, j) ==
    \/ sessions[r].st = "Delivered"
    \/ /\ j \notin ReadySenders(sessions[r])
       /\ sessions[j].ready_first \/ j \in EchoSenders(sessions[r])

\* The number of Echo and Ready messages of the Byzantine replica that
\* sessions have counted.
ByzantineCounted ==
    Cardinality({r \in Correct : byz \in EchoSenders(sessions[r])})
        + Cardinality({r \in Correct : byz \in ReadySenders(sessions[r])})

\* Step 1: a correct proposer encodes v, whose tree has the root v, sends
\* Value(proof_i) to each replica i and moves to Disseminated.
Propose(v) ==
    /\ Proposer \in Correct
    /\ sessions[Proposer].st = "Init"
    /\ proposed = NoRoot
    /\ proposed' = v
    /\ sessions' = [sessions EXCEPT ![Proposer].st = "Disseminated"]
    /\ UNCHANGED << byz, inplay, noted >>
    /\ UNCHANGED router_vars
    /\ UNCHANGED codec_vars

\* The replica r receives a Value with root h from the proposer: the one a
\* correct proposer sent, or whatever a Byzantine proposer sends. A Value
\* after the first is discarded (step 2) and is left out.
RecvValue(r, h) ==
    /\ r \in Correct
    /\ byz = Proposer \/ proposed = h
    /\ sessions[r].value_root = NoRoot \/ sessions[r].st = "Delivered"
    /\ sessions' = [sessions EXCEPT ![r] = OnValue(@, r, h)]
    /\ noted' = noted \cup Ignored(sessions[r])
    /\ UNCHANGED << byz, proposed, inplay >>
    /\ UNCHANGED router_vars
    /\ UNCHANGED codec_vars

\* The replica r receives an Echo for the root h from the replica j: the one
\* a correct j sent, or whatever a Byzantine j sends, which sends it again as
\* often as it likes.
RecvEcho(r, j, h) ==
    /\ r \in Correct
    /\ j # r
    /\ \/ /\ j = byz
          /\ \/ ByzantineCounted < MaxByzantine
             \/ byz \in EchoSenders(sessions[r])
             \/ sessions[r].st = "Delivered"
       \/ /\ j \in Correct
          /\ sessions[j].value_root = h
          /\ EchoInOrder(r, j)
    /\ sessions' = [sessions EXCEPT ![r] = OnEcho(@, r, j, h)]
    /\ noted' = noted \cup Ignored(sessions[r])
    /\ UNCHANGED << byz, proposed, inplay >>
    /\ UNCHANGED router_vars
    /\ UNCHANGED codec_vars

\* The replica r receives Ready(h) from the replica j.
RecvReady(r, j, h) ==
    /\ r \in Correct
    /\ j # r
    /\ \/ /\ j = byz
          /\ \/ ByzantineCounted < MaxByzantine
             \/ byz \in ReadySenders(sessions[r])
             \/ sessions[r].st = "Delivered"
       \/ /\ j \in Correct
          /\ sessions[j].ready_sent = h
          /\ ReadyInOrder(r, j)
    /\ sessions' = [sessions EXCEPT ![r] = OnReady(@, r, j, h)]
    /\ noted' = noted \cup Ignored(sessions[r])
    /\ UNCHANGED << byz, proposed, inplay >>
    /\ UNCHANGED router_vars
    /\ UNCHANGED codec_vars

\* One replica is Byzantine: the proposer, or one of the others (which are
\* alike); what a correct replica does is among the things the Byzantine
\* replica may do. The messages of the round carry the roots of one pair.
InitBroadcast ==
    /\ Messaging_new(1)
    /\ router = "running"
    /\ log = << >>
    /\ nsub = 0
    /\ done_algo = << >>
    /\ done_comms = << >>
    /\ CodecIdle
    /\ byz \in {Proposer, NumReplicas}
    /\ proposed = NoRoot
    /\ inplay \in RootPairs
    /\ sessions = [r \in Replicas |-> Session_new]
    /\ noted = {}

NextBroadcast ==
    \/ \E v \in GoodRoots \cap inplay : Propose(v)
    \/ \E r \in Replicas, h \in inplay : RecvValue(r, h)
    \/ \E r \in Replicas, j \in Replicas, h \in inplay : RecvEcho(r, j, h)
    \/ \E r \in Replicas, j \in Replicas, h \in inplay : RecvReady(r, j, h)

SpecBroadcast == InitBroadcast /\ [][NextBroadcast]_vars

\* The messages of the correct replicas to the replica r.
CorrectTraffic(r) ==
    \/ \E h \in inplay : Proposer \in Correct /\ RecvValue(r, h)
    \/ \E j \in Correct, h \in inplay : RecvEcho(r, j, h)
    \/ \E j \in Correct, h \in inplay : RecvReady(r, j, h)

\* Reliable, asynchronous delivery in a round with a correct proposer: the
\* proposer proposes, and a message of a correct replica that waits for its
\* receiver is received.
InitCorrectProposer == InitBroadcast /\ byz # Proposer

SpecBroadcastFair ==
    /\ InitCorrectProposer
    /\ [][NextBroadcast]_vars
    /\ WF_vars(\E v \in GoodRoots \cap inplay : Propose(v))
    /\ \A r \in Replicas : WF_vars(CorrectTraffic(r))

\* ------------------------------------------------------------------------
\* One ReliableBroadcast session and whatever its inbox may hold: the router
\* hands the session of the replica Observed any Value, Echo and Ready,
\* attributed to any other replica, in any order and any number of times.
\* ------------------------------------------------------------------------

Observed == 2

HearValue(h) ==
    /\ sessions' = [sessions EXCEPT ![Observed] = OnValue(@, Observed, h)]
    /\ noted' = noted \cup Ignored(sessions[Observed])
                      \cup Duplicate(sessions[Observed],
                                     IF sessions[Observed].value_root = NoRoot
                                     THEN {} ELSE {Proposer}, Proposer)
    /\ UNCHANGED << byz, proposed, inplay >>
    /\ UNCHANGED router_vars
    /\ UNCHANGED codec_vars

HearEcho(j, h) ==
    /\ j # Observed
    /\ sessions' = [sessions EXCEPT ![Observed] = OnEcho(@, Observed, j, h)]
    /\ noted' = noted \cup Ignored(sessions[Observed])
                      \cup Duplicate(sessions[Observed],
                                     EchoSenders(sessions[Observed]), j)
    /\ UNCHANGED << byz, proposed, inplay >>
    /\ UNCHANGED router_vars
    /\ UNCHANGED codec_vars

HearReady(j, h) ==
    /\ j # Observed
    /\ sessions' = [sessions EXCEPT ![Observed] = OnReady(@, Observed, j, h)]
    /\ noted' = noted \cup Ignored(sessions[Observed])
                      \cup Duplicate(sessions[Observed],
                                     ReadySenders(sessions[Observed]), j)
    /\ UNCHANGED << byz, proposed, inplay >>
    /\ UNCHANGED router_vars
    /\ UNCHANGED codec_vars

InitSession ==
    /\ Messaging_new(1)
    /\ router = "running"
    /\ log = << >>
    /\ nsub = 0
    /\ done_algo = << >>
    /\ done_comms = << >>
    /\ CodecIdle
    /\ BroadcastIdle

NextSession ==
    \/ \E h \in Roots : HearValue(h)
    \/ \E j \in Replicas, h \in Roots : HearEcho(j, h)
    \/ \E j \in Replicas, h \in Roots : HearReady(j, h)

SpecSession == InitSession /\ [][NextSession]_vars

\* ------------------------------------------------------------------------
\* Properties of the router
\* ------------------------------------------------------------------------

\* The step is a receive of the loop from from_algo_rx / from_comms_rx: only
\* those steps extend the histories.
AlgoStep == done_algo' # done_algo

CommsStep == done_comms' # done_comms

\* The number of copies of x in the sequence q.
Count(q, x) == Cardinality({p \in 1 .. Len(q) : q[p] = x})

\* The number of SourcedMessages of the inbox q that carry the message x.
InboxCount(q, x) == Cardinality({p \in 1 .. Len(q) : q[p].message = x})

\* C1: when the loop receives a TargetedMessage with target All, the step
\* appends the submitted message, unchanged, exactly once to each of the
\* num_nodes - 1 channels to the comms tasks.
C1_AllFanOut ==
    [][(AlgoStep /\ Head(from_algo).target = All) =>
        /\ Len(to_comms') = num_nodes - 1
        /\ \A v \in 1 .. num_nodes - 1 :
              to_comms'[v] = Append(to_comms[v], Head(from_algo).message)]_vars

\* A router for MaxNodes nodes has received an All message and each of its
\* outboxes holds that message.
C1_Witness ==
    /\ num_nodes = MaxNodes
    /\ num_nodes >= 3
    /\ \E k \in 1 .. Len(done_algo) :
        /\ done_algo[k].tm.target = All
        /\ \A v \in 1 .. num_nodes - 1 :
              Count(to_comms[v], done_algo[k].tm.message) = 1

\* C2: when the loop receives a TargetedMessage with target Node(i),
\* 1 <= i <= num_nodes - 1, the step appends the message to the outbox of vector
\* index i - 1 (position i) and changes no other outbox and no inbox.
C2_NodeSingleSend ==
    [][(/\ AlgoStep
        /\ Head(from_algo).target.tag = "Node"
        /\ Head(from_algo).target.i >= 1
        /\ Head(from_algo).target.i <= num_nodes - 1) =>
        LET i == Head(from_algo).target.i IN
        /\ Len(to_comms') = num_nodes - 1
        /\ to_comms'[(i - 1) + 1] =
              Append(to_comms[(i - 1) + 1], Head(from_algo).message)
        /\ \A v \in 1 .. num_nodes - 1 :
              v # (i - 1) + 1 => to_comms'[v] = to_comms[v]
        /\ to_algo' = to_algo]_vars

\* A router with two outboxes has received a Node(2) message: outbox 1 holds
\* it and outbox 0 does not.
C2_Witness ==
    /\ num_nodes >= 3
    /\ \E k \in 1 .. Len(done_algo) :
        /\ done_algo[k].tm.target = Node(2)
        /\ Count(to_comms[2], done_algo[k].tm.message) = 1
        /\ Count(to_comms[1], done_algo[k].tm.message) = 0

\* C3: when the loop receives a SourcedMessage, the step appends it, with its
\* source and its message unchanged, once to each of the num_nodes inboxes.
C3_SourcedFanOut ==
    [][CommsStep =>
        /\ Len(to_algo') = num_nodes
        /\ \A v \in 1 .. num_nodes :
              to_algo'[v] = Append(to_algo[v], Head(from_comms))]_vars

\* A router for MaxNodes nodes has received a message of source 2 and every
\* inbox ends with it, source 2 included.
C3_Witness ==
    /\ num_nodes = MaxNodes
    /\ num_nodes >= 3
    /\ \E k \in 1 .. Len(done_comms) :
        /\ done_comms[k].source = 2
        /\ \A v \in 1 .. num_nodes :
              Count(to_algo[v], done_comms[k]) = 1

\* C4: no TargetedMessage with target Node(0) exists: none is in the channel
\* from the algo tasks and none has been received by the loop.
C4_NoNodeZero ==
    /\ \A p \in 1 .. Len(from_algo) : from_algo[p].target # Node(0)
    /\ \A k \in 1 .. Len(done_algo) : done_algo[k].tm.target # Node(0)

\* The entry of done_algo is a message the loop dropped: its target is Node(i)
\* with i greater than the number of outboxes.
Dropped(e) ==
    /\ e.tm.target.tag = "Node"
    /\ e.tm.target.i > num_nodes - 1

\* The message of tm was delivered as its target asks: once to every outbox
\* for All, once to outbox i - 1 and to no other for an existing Node(i).
RoutedAsTargeted(tm) ==
    \A v \in 1 .. num_nodes - 1 :
        Count(to_comms[v], tm.message) =
            IF tm.target = All \/ tm.target = Node(v) THEN 1 ELSE 0

\* C5: a step that receives Node(i) with i > num_nodes - 1 changes no outbox
\* and no inbox, writes the error line and leaves the loop running; and
\* whatever the loop received after such a drop, it routed as usual: later
\* targeted messages are in the outboxes their targets name, and sourced
\* messages submitted after the drop and received are in every inbox. The
\* dropped message itself is in no outbox and no inbox.
C5_DropIsNotFatal ==
    /\ [][(/\ AlgoStep
           /\ Head(from_algo).target.tag = "Node"
           /\ Head(from_algo).target.i > num_nodes - 1) =>
           /\ to_comms' = to_comms
           /\ to_algo' = to_algo
           /\ router' = "running"
           /\ from_algo' = Tail(from_algo)
           /\ log' = Append(log, Head(from_algo).target.i - 1)]_vars
    /\ [](\A d \in 1 .. Len(done_algo) :
            Dropped(done_algo[d]) =>
              /\ \A v \in 1 .. num_nodes - 1 :
                    Count(to_comms[v], done_algo[d].tm.message) = 0
              /\ \A v \in 1 .. num_nodes :
                    InboxCount(to_algo[v], done_algo[d].tm.message) = 0
              /\ \A k \in d + 1 .. Len(done_algo) :
                    (done_algo[k].tm.target.tag = "Node"
                        => done_algo[k].tm.target.i > 0)
                    => \/ Dropped(done_algo[k])
                       \/ RoutedAsTargeted(done_algo[k].tm)
              /\ \A k \in 1 .. Len(done_comms) :
                    done_comms[k].message > done_algo[d].at
                    => \A v \in 1 .. num_nodes :
                          Count(to_algo[v], done_comms[k]) = 1)

\* The loop dropped a message and then received and delivered a message that
\* was submitted after the drop; it is still running.
C5_Witness ==
    /\ router = "running"
    /\ num_nodes >= 2
    /\ \E d \in 1 .. Len(done_algo) :
        /\ Dropped(done_algo[d])
        /\ Len(log) >= 1
        /\ \E k \in d + 1 .. Len(done_algo) :
            /\ done_algo[k].tm.message > done_algo[d].at
            /\ done_algo[k].tm.target = Node(1)
            /\ Count(to_comms[1], done_algo[k].tm.message) = 1

\* C6: messages are numbered in the order of their submission, so FIFO order
\* is: every outbox and every inbox holds its messages in increasing order
\* (which also says that none is there twice).
C6_Fifo ==
    /\ \A v \in 1 .. Len(to_comms) :
          \A p, q \in 1 .. Len(to_comms[v]) :
              p < q => to_comms[v][p] < to_comms[v][q]
    /\ \A v \in 1 .. Len(to_algo) :
          \A p, q \in 1 .. Len(to_algo[v]) :
              p < q => to_algo[v][p].message < to_algo[v][q].message

\* An outbox holds two messages, one routed by Node(i) and then one routed by
\* All, while a sourced message submitted between the two is in an inbox.
C6_Witness ==
    \E v \in 1 .. Len(to_comms) :
        /\ Len(to_comms[v]) = 2
        /\ \E k \in 1 .. Len(done_algo) :
              /\ done_algo[k].tm.message = to_comms[v][1]
              /\ done_algo[k].tm.target = Node(v)
        /\ \E w \in 1 .. Len(to_algo) :
              /\ Len(to_algo[w]) = 1
              /\ to_comms[v][1] < to_algo[w][1].message
              /\ to_algo[w][1].message < to_comms[v][2]

\* ------------------------------------------------------------------------
\* Properties of the codec
\* ------------------------------------------------------------------------

\* The BroadcastProto of the MessageProto at hand (the default one if unset).
WireBroadcast == Take(Unwrap(wire).broadcast, BroadcastProto_new)

\* The MessageProto at hand holds a Value or an Echo.
WireHasProof ==
    /\ IsSome(wire)
    /\ IsSome(Unwrap(wire).broadcast)
    /\ (IsSome(WireBroadcast.value) \/ IsSome(WireBroadcast.echo))

\* The ProofProto of that Value or Echo, as take_proof gives it.
WireProof ==
    IF IsSome(WireBroadcast.value)
    THEN Take(Unwrap(WireBroadcast.value).proof, ProofProto_default)
    ELSE Take(Unwrap(WireBroadcast.echo).proof, ProofProto_default)

\* C7: a message that was encoded by into_proto and decoded by from_proto
\* comes back as the same message.
C7_RoundTrip ==
    (cpc \in {"decoded", "panicked"} /\ IsSome(mem)) => result = Returned(mem)

\* C8: from_proto returns None, and no message, for a MessageProto with neither
\* broadcast nor agreement, for a BroadcastProto with none of value, echo and
\* ready, and for a Value or Echo whose proof has no lemma.
C8_FailsClosed ==
    (/\ cpc \in {"decoded", "panicked"}
     /\ \/ (~ IsSome(Unwrap(wire).broadcast) /\ ~ IsSome(Unwrap(wire).agreement))
        \/ /\ IsSome(Unwrap(wire).broadcast)
           /\ ~ IsSome(WireBroadcast.value)
           /\ ~ IsSome(WireBroadcast.echo)
           /\ ~ IsSome(WireBroadcast.ready)
        \/ (WireHasProof /\ ~ IsSome(WireProof.lemma)))
    => result = Returned(None)

\* A peer sent a Value whose proof has a root hash and a value but no lemma,
\* and from_proto returned None.
C8_Witness ==
    /\ cpc = "decoded"
    /\ IsSome(Unwrap(wire).broadcast)
    /\ IsSome(WireBroadcast.value)
    /\ IsSome(Unwrap(WireBroadcast.value).proof)
    /\ WireProof.root_hash \in Bytes
    /\ ~ IsSome(WireProof.lemma)
    /\ result = Returned(None)

\* The LemmaProto has a sub_lemma and either both sibling hashes or neither.
MalformedHere(lp) ==
    /\ IsSome(lp.sub_lemma)
    /\ IsSome(lp.left_sibling_hash) = IsSome(lp.right_sibling_hash)

RECURSIVE MalformedAnywhere(_)
MalformedAnywhere(lp) ==
    \/ MalformedHere(lp)
    \/ (IsSome(lp.sub_lemma) /\ MalformedAnywhere(Unwrap(lp.sub_lemma)))

\* from_proto was given a Value or Echo whose lemma tree holds a non-terminal
\* lemma with both sibling hashes or with neither.
DecodedMalformedLemma ==
    /\ cpc \in {"decoded", "panicked"}
    /\ WireHasProof
    /\ IsSome(WireProof.lemma)
    /\ MalformedAnywhere(Unwrap(WireProof.lemma))

\* C9 as stated: a message that holds such a lemma decodes to nothing.
C9_MalformedLemmaUnparseable ==
    DecodedMalformedLemma => result = Returned(None)

\* C9 as amended: a message that holds such a lemma decodes to a message. Its
\* lemma has the node hash and a sub-lemma like its wire form, and where the
\* outermost lemma is the one with both sibling hashes or neither, it has the
\* left hash as its Left sibling, or no sibling.
C9_MalformedLemmaParsed ==
    DecodedMalformedLemma =>
        /\ result.outcome = "returned"
        /\ IsSome(result.value)
        /\ LET lp == Unwrap(WireProof.lemma)
               b == Unwrap(result.value).broadcast
               l == b.proof.lemma
           IN  /\ b.tag = IF IsSome(WireBroadcast.value) THEN "Value" ELSE "Echo"
               /\ l.node_hash = lp.node_hash
               /\ IsSome(l.sub_lemma)
               /\ MalformedHere(lp) =>
                     l.sibling_hash =
                        IF IsSome(lp.left_sibling_hash)
                        THEN Some(Left(Unwrap(lp.left_sibling_hash)))
                        ELSE None

\* A peer sent a Value whose lemma has a sub_lemma and no sibling hash, and
\* from_proto returned a message.
C9_Witness ==
    /\ DecodedMalformedLemma
    /\ ~ IsSome(mem)
    /\ IsSome(WireBroadcast.value)
    /\ ~ IsSome(Unwrap(WireProof.lemma).left_sibling_hash)
    /\ ~ IsSome(Unwrap(WireProof.lemma).right_sibling_hash)
    /\ IsSome(result.value)

\* C10: Message::from_proto returns, with a message or with None, for every
\* MessageProto: it never panics.
C10_NeverFaults == cpc # "panicked"

\* ------------------------------------------------------------------------
\* Properties of the router at teardown
\* ------------------------------------------------------------------------

\* No channel of the side at positions 1..p is closed: the loop over the side
\* reaches the send at position p and that send succeeds.
OpenUpTo(side, p) == \A q \in 1 .. p : << side, q >> \notin closed

\* C11: a receive whose sends meet a closed channel ends the thread at that
\* send: the channels before the closed one (in vector order) have got the
\* message, the closed one and those after it have not, and the thread has
\* panicked. Once the thread has ended, no channel changes and nothing more is
\* received. A Node(i) target that does not exist leaves the thread running.
C11_ClosedSendIsFatal ==
    [][/\ (/\ AlgoStep
           /\ Head(from_algo).target = All
           /\ ~ OpenUpTo("comms", Len(to_comms)))
          => /\ router' = "send_failed"
             /\ \A p \in 1 .. Len(to_comms) :
                   to_comms'[p] =
                      IF OpenUpTo("comms", p)
                      THEN Append(to_comms[p], Head(from_algo).message)
                      ELSE to_comms[p]
       /\ (/\ AlgoStep
           /\ Head(from_algo).target.tag = "Node"
           /\ Head(from_algo).target.i >= 1
           /\ Head(from_algo).target.i <= Len(to_comms)
           /\ << "comms", Head(from_algo).target.i >> \in closed)
          => /\ router' = "send_failed"
             /\ to_comms' = to_comms
       /\ (CommsStep /\ ~ OpenUpTo("algo", Len(to_algo)))
          => /\ router' = "send_failed"
             /\ \A p \in 1 .. Len(to_algo) :
                   to_algo'[p] =
                      IF OpenUpTo("algo", p)
                      THEN Append(to_algo[p], Head(from_comms))
                      ELSE to_algo[p]
       /\ router # "running"
          => /\ router' = router
             /\ to_comms' = to_comms
             /\ to_algo' = to_algo
             /\ done_algo' = done_algo
             /\ done_comms' = done_comms
       /\ (/\ AlgoStep
           /\ Head(from_algo).target.tag = "Node"
           /\ Head(from_algo).target.i > Len(to_comms))
          => router' = "running"]_vars

\* The second of two outboxes was closed when the loop received an All
\* message: the first outbox holds the message, the second does not, the
\* thread has ended and a later message waits in the channel from the algo
\* tasks.
C11_Witness ==
    /\ router = "send_failed"
    /\ Len(to_comms) = 2
    /\ closed = {<< "comms", 2 >>}
    /\ done_algo # << >>
    /\ LET last == done_algo[Len(done_algo)].tm IN
        /\ last.target = All
        /\ Count(to_comms[1], last.message) = 1
        /\ Count(to_comms[2], last.message) = 0
    /\ from_algo # << >>

\* ------------------------------------------------------------------------
\* Further properties of the router
\* ------------------------------------------------------------------------

\* C16: the loop's assert!(i > 0) holds whatever the algo tasks send: the
\* thread never ends on that assertion.
C16_AssertHolds == router # "assert_failed"

\* C17: the two directions never cross. A step that receives a
\* TargetedMessage, whatever its target, changes no inbox of the algo tasks;
\* a step that receives a SourcedMessage changes no outbox to the comms tasks.
C17_DirectionsNeverCross ==
    [][/\ AlgoStep => to_algo' = to_algo
       /\ CommsStep => to_comms' = to_comms]_vars

\* The loop has received an All message, which is in every outbox and in no
\* inbox, and a SourcedMessage, which is in every inbox and in no outbox.
C17_Witness ==
    /\ num_nodes >= 2
    /\ \E k \in 1 .. Len(done_algo) :
        /\ done_algo[k].tm.target = All
        /\ \A v \in 1 .. num_nodes - 1 :
              Count(to_comms[v], done_algo[k].tm.message) = 1
        /\ \A v \in 1 .. num_nodes :
              InboxCount(to_algo[v], done_algo[k].tm.message) = 0
    /\ \E k \in 1 .. Len(done_comms) :
        /\ \A v \in 1 .. num_nodes : Count(to_algo[v], done_comms[k]) = 1
        /\ \A v \in 1 .. num_nodes - 1 :
              Count(to_comms[v], done_comms[k].message) = 0

\* The number of TargetedMessages the loop has received with the target t.
Processed(t) ==
    Cardinality({k \in 1 .. Len(done_algo) : done_algo[k].tm.target = t})

\* C18: while no channel is closed, the outbox of vector index k (position
\* k + 1) has been appended to as often as the loop has received a message for
\* All or for Node(k + 1), and each inbox as often as the loop has received a
\* SourcedMessage. Nothing takes messages out of the outboxes and inboxes
\* here, so their lengths are the numbers of appends.
C18_Counting ==
    closed = {} =>
        /\ \A k \in 0 .. num_nodes - 2 :
              Len(to_comms[k + 1]) = Processed(All) + Processed(Node(k + 1))
        /\ \A v \in 1 .. num_nodes :
              Len(to_algo[v]) = Len(done_comms)

\* A router with two outboxes has received an All message, a Node(2) message
\* and a SourcedMessage: outbox 0 holds one message, outbox 1 two and every
\* inbox one.
C18_Witness ==
    /\ num_nodes = 3
    /\ closed = {}
    /\ Processed(All) = 1
    /\ Processed(Node(2)) = 1
    /\ Len(done_comms) = 1
    /\ Len(to_comms[1]) = 1
    /\ Len(to_comms[2]) = 2
    /\ \A v \in 1 .. 3 : Len(to_algo[v]) = 1

\* The message numbered m waits in the channel from the algo tasks.
QueuedFromAlgo(m) == \E p \in 1 .. Len(from_algo) : from_algo[p].message = m

\* The message numbered m waits in the channel from the comms tasks.
QueuedFromComms(m) == \E p \in 1 .. Len(from_comms) : from_comms[p].message = m

\* The loop has received the TargetedMessage numbered m and has either sent
\* it on the outboxes its target names or dropped it for its index.
Forwarded(m) ==
    \E k \in 1 .. Len(done_algo) :
        /\ done_algo[k].tm.message = m
        /\ \/ Dropped(done_algo[k])
           \/ /\ done_algo[k].tm.target \in
                    {All} \cup {Node(i) : i \in 1 .. num_nodes - 1}
              /\ RoutedAsTargeted(done_algo[k].tm)

\* The SourcedMessage numbered m is in every inbox.
InEveryInbox(m) ==
    \A v \in 1 .. num_nodes : InboxCount(to_algo[v], m) = 1

\* C19: with both receive branches taken fairly and no channel closed, every
\* TargetedMessage in the channel from the algo tasks is eventually in the
\* outboxes of its target (or dropped for its index), and every SourcedMessage
\* in the channel from the comms tasks is eventually in every inbox.
C19_RouterLiveness ==
    \A m \in 1 .. MaxMsgs :
        /\ QueuedFromAlgo(m) ~> (closed # {} \/ Forwarded(m))
        /\ QueuedFromComms(m) ~> (closed # {} \/ InEveryInbox(m))

\* ------------------------------------------------------------------------
\* Further properties of the codec
\* ------------------------------------------------------------------------

\* C20: from_proto, given a Value or an Echo, returns None exactly when the
\* proof has no lemma: whatever sibling hashes the lemma tree has at whatever
\* depth, LemmaProto::from_proto returns a Lemma for it, with the node hash
\* of its wire form.
C20_NoneOnlyWithoutLemma ==
    (cpc \in {"decoded", "panicked"} /\ WireHasProof) =>
        /\ result.outcome = "returned"
        /\ ~ IsSome(result.value) <=> ~ IsSome(WireProof.lemma)
        /\ IsSome(WireProof.lemma) =>
              /\ IsSome(LemmaProto_from_proto(Unwrap(WireProof.lemma)))
              /\ Unwrap(result.value).broadcast.proof.lemma =
                    Unwrap(LemmaProto_from_proto(Unwrap(WireProof.lemma)))
              /\ Unwrap(result.value).broadcast.proof.lemma.node_hash =
                    Unwrap(WireProof.lemma).node_hash

\* A peer sent an Echo whose lemma has a sub_lemma and both sibling hashes,
\* and from_proto returned an Echo.
C20_Witness ==
    /\ cpc = "decoded"
    /\ ~ IsSome(mem)
    /\ WireHasProof
    /\ ~ IsSome(WireBroadcast.value)
    /\ IsSome(WireProof.lemma)
    /\ IsSome(Unwrap(WireProof.lemma).sub_lemma)
    /\ IsSome(Unwrap(WireProof.lemma).left_sibling_hash)
    /\ IsSome(Unwrap(WireProof.lemma).right_sibling_hash)
    /\ IsSome(result.value)
    /\ Unwrap(result.value).broadcast.tag = "Echo"

\* ------------------------------------------------------------------------
\* Properties of ReliableBroadcast
\* ------------------------------------------------------------------------

\* The correct replica r has delivered.
Delivered(r) == r \in Correct /\ sessions[r].st = "Delivered"

EchoedBy(h) ==
    {j \in Correct : sessions[j].value_root = h}
        \cup {j \in Replicas :
                j = byz /\ \E r \in Correct : j \in sessions[r].echoes[h]}

\* C13: a correct replica that has delivered has counted Ready for the
\* delivered root from at least N - f distinct senders, and one that has not
\* delivered reports no value; a correct replica that sent Ready on its Echo
\* count has counted at least N - f distinct Echo senders for that root, and
\* no root for which fewer than N - f replicas have sent an Echo is delivered
\* or gets such a Ready; a session that has delivered never changes again,
\* whatever it receives.
C13_Integrity ==
    /\ [](\A r \in Correct :
            LET s == sessions[r] IN
            /\ s.st = "Delivered" <=> IsSome(s.delivered)
            /\ s.st = "Delivered" =>
                  /\ s.delivered_root \in Roots
                  /\ s.ready_count[s.delivered_root] >= NumReplicas - NumFaulty
                  /\ Cardinality(s.readys[s.delivered_root])
                        >= NumReplicas - NumFaulty
                  /\ Cardinality(EchoedBy(s.delivered_root))
                        >= NumReplicas - NumFaulty
            /\ s.ready_by = "echo" =>
                  /\ Cardinality(s.echoes[s.ready_sent])
                        >= NumReplicas - NumFaulty
                  /\ Cardinality(EchoedBy(s.ready_sent))
                        >= NumReplicas - NumFaulty)
    /\ [][\A r \in Correct :
            sessions[r].st = "Delivered" => sessions'[r] = sessions[r]]_vars

\* A session has delivered on Ready from N - f senders, and a message that
\* reached it afterwards was ignored; another session sent Ready on its Echo
\* count.
C13_Witness ==
    /\ "after_delivered" \in noted
    /\ \E r \in Correct :
        /\ Delivered(r)
        /\ Cardinality(sessions[r].readys[sessions[r].delivered_root])
              = NumReplicas - NumFaulty
    /\ \E r \in Correct :
        /\ sessions[r].ready_by = "echo"
        /\ Cardinality(sessions[r].echoes[sessions[r].ready_sent])
              = NumReplicas - NumFaulty

C15_CountsDeduplicated ==
    LET s == sessions[Observed] IN
    /\ \A h \in Roots :
        /\ s.echo_count[h] = Cardinality(s.echoes[h])
        /\ s.ready_count[h] = Cardinality(s.readys[h])
    /\ \A h1, h2 \in Roots :
        h1 # h2 =>
            /\ s.echoes[h1] \cap s.echoes[h2] = {}
            /\ s.readys[h1] \cap s.readys[h2] = {}

\* The session has counted one Echo, of the replica 3 for a good root, and
\* nothing else, and has discarded a message of a sender already counted:
\* another Echo of the replica 3.
C15_Witness ==
    LET s == sessions[Observed] IN
    /\ "duplicate" \in noted
    /\ s.value_root = NoRoot
    /\ s.st = "Init"
    /\ \E h \in GoodRoots :
        /\ s.echoes[h] = {3}
        /\ s.echo_count[h] = 1
        /\ \A g \in Roots : g # h => s.echoes[g] = {}
    /\ \A g \in Roots : s.readys[g] = {}

=============================================================================
